---- MODULE Spec2Model ----
(***************************************************************************)
(* A model of the Kinesis MCP server (awslabs.kinesis_mcp_server).         *)
(*                                                                         *)
(* Every tool of server.py is an "async def" without a suspension point,   *)
(* wrapped by handle_exceptions and, when it mutates, by mutation_check    *)
(* (common.py).  One action per tool models the whole call: the argument   *)
(* constraints declared with Field(...), the gate, get_kinesis_client, the *)
(* request dictionary, the single boto3 call and the result mapping.       *)
(*                                                                         *)
(* Python values.  A str whose characters matter (the value of the         *)
(* read-only variable, a record's data) is a sequence of code points; raw  *)
(* bytes are a sequence of 0..255.  Opaque strs (names, ARNs, regions) are *)
(* TLA+ strings, "" being Python's empty str.  An argument left at its     *)
(* default None is a key missing from the argument function.               *)
(***************************************************************************)
EXTENDS Integers, Sequences, FiniteSets, TLC

(***************************************************************************)
(* Bounds of the model.                                                    *)
(***************************************************************************)
\* longest data string given to put_record in the encoding specification
MaxDataLen == 5
\* longest data blob of a record returned by the backing service
MaxBlobLen == 2
\* most records in a get_records response / a put_records batch
MaxRecords == 2

\* the calls served at the same time
MaxInflight == 2

(***************************************************************************)
(* Python library functions used by the tools.                             *)
(***************************************************************************)

\* str.lower() on the code points the model uses (ASCII): 'A'..'Z' -> 'a'..'z'
LowerChar(c) == IF c >= 65 /\ c <= 90 THEN c + 32 ELSE c

Lower(s) == [i \in 1..Len(s) |-> LowerChar(s[i])]

\* the value of a character in the base64 alphabet, 64 for any other character
B64Value(c) ==
    IF c >= 65 /\ c <= 90 THEN c - 65
    ELSE IF c >= 97 /\ c <= 122 THEN c - 71
    ELSE IF c >= 48 /\ c <= 57 THEN c + 4
    ELSE IF c = 43 THEN 62
    ELSE IF c = 47 THEN 63
    ELSE 64

\* binascii.a2b_base64 in its default, non-strict mode: a character outside
\* the alphabet is skipped, a complete pad sequence ends the parse, and a
\* partial quad at the end of the input is an error.
RECURSIVE A2B(_, _, _, _, _, _)
A2B(s, i, quad, left, pads, out) ==
    IF i > Len(s)
    THEN [ok |-> quad = 0, bytes |-> out]
    ELSE LET c == s[i] v == B64Value(s[i]) IN
         IF c = 61
         THEN IF quad >= 2 /\ quad + pads + 1 >= 4
              THEN [ok |-> TRUE, bytes |-> out]
              ELSE A2B(s, i + 1, quad, left, IF quad >= 2 THEN pads + 1 ELSE pads, out)
         ELSE IF v = 64
         THEN A2B(s, i + 1, quad, left, pads, out)
         ELSE CASE quad = 0 -> A2B(s, i + 1, 1, v, 0, out)
                [] quad = 1 -> A2B(s, i + 1, 2, v % 16, 0,
                                   Append(out, (left * 4) + (v \div 16)))
                [] quad = 2 -> A2B(s, i + 1, 3, v % 4, 0,
                                   Append(out, (left * 16) + (v \div 4)))
                [] quad = 3 -> A2B(s, i + 1, 0, 0, 0,
                                   Append(out, (left * 64) + v))

\* base64.b64decode(s) for a str s: s.encode('ascii') raises ValueError on a
\* non-ASCII character, then binascii.a2b_base64 decodes or raises.
b64decode(s) ==
    IF \E i \in 1..Len(s) : s[i] >= 128
    THEN [ok |-> FALSE, bytes |-> <<>>]
    ELSE A2B(s, 1, 0, 0, 0, <<>>)

\* the UTF-8 encoding of one code point (surrogates are not modelled)
Utf8Char(cp) ==
    IF cp < 128 THEN <<cp>>
    ELSE IF cp < 2048 THEN <<192 + (cp \div 64), 128 + (cp % 64)>>
    ELSE IF cp < 65536
    THEN <<224 + (cp \div 4096), 128 + ((cp \div 64) % 64), 128 + (cp % 64)>>
    ELSE <<240 + (cp \div 262144), 128 + ((cp \div 4096) % 64),
           128 + ((cp \div 64) % 64), 128 + (cp % 64)>>

\* str.encode('utf-8')
RECURSIVE encode_utf8(_)
encode_utf8(s) ==
    IF s = <<>> THEN <<>> ELSE Utf8Char(Head(s)) \o encode_utf8(Tail(s))

IsCont(b) == b >= 128 /\ b <= 191

\* bytes.decode('utf-8'), strict: the decoded str, or UnicodeDecodeError on
\* a stray continuation byte, a truncated or overlong sequence, a surrogate
\* or a code point above U+10FFFF.
RECURSIVE Utf8Scan(_, _, _)
Utf8Scan(b, i, out) ==
    IF i > Len(b) THEN [ok |-> TRUE, str |-> out]
    ELSE LET b0 == b[i]
             n  == Len(b) - i
             bad == [ok |-> FALSE, str |-> <<>>]
         IN
         IF b0 < 128 THEN Utf8Scan(b, i + 1, Append(out, b0))
         ELSE IF b0 >= 194 /\ b0 <= 223
         THEN IF n >= 1 /\ IsCont(b[i + 1])
              THEN Utf8Scan(b, i + 2, Append(out, ((b0 - 192) * 64) + (b[i + 1] - 128)))
              ELSE bad
         ELSE IF b0 >= 224 /\ b0 <= 239
         THEN IF /\ n >= 2
                 /\ IsCont(b[i + 1])
                 /\ IsCont(b[i + 2])
                 /\ (b0 = 224 => b[i + 1] >= 160)
                 /\ (b0 = 237 => b[i + 1] <= 159)
              THEN Utf8Scan(b, i + 3,
                       Append(out, ((b0 - 224) * 4096) + ((b[i + 1] - 128) * 64)
                                   + (b[i + 2] - 128)))
              ELSE bad
         ELSE IF b0 >= 240 /\ b0 <= 244
         THEN IF /\ n >= 3
                 /\ IsCont(b[i + 1])
                 /\ IsCont(b[i + 2])
                 /\ IsCont(b[i + 3])
                 /\ (b0 = 240 => b[i + 1] >= 144)
                 /\ (b0 = 244 => b[i + 1] <= 143)
              THEN Utf8Scan(b, i + 4,
                       Append(out, ((b0 - 240) * 262144) + ((b[i + 1] - 128) * 4096)
                                   + ((b[i + 2] - 128) * 64) + (b[i + 3] - 128)))
              ELSE bad
         ELSE bad

decode_utf8(b) == Utf8Scan(b, 1, <<>>)

\* the character of a base64 value 0..63
B64Char(v) ==
    IF v < 26 THEN 65 + v
    ELSE IF v < 52 THEN 71 + v
    ELSE IF v < 62 THEN v - 4
    ELSE IF v = 62 THEN 43
    ELSE 47

\* base64.b64encode(b).decode('utf-8'): three bytes give four characters,
\* the last group is padded with '='
RECURSIVE b64encode(_)
b64encode(b) ==
    IF Len(b) = 0 THEN <<>>
    ELSE IF Len(b) = 1
    THEN <<B64Char(b[1] \div 4), B64Char((b[1] % 4) * 16), 61, 61>>
    ELSE IF Len(b) = 2
    THEN <<B64Char(b[1] \div 4), B64Char(((b[1] % 4) * 16) + (b[2] \div 16)),
           B64Char((b[2] % 16) * 4), 61>>
    ELSE <<B64Char(b[1] \div 4), B64Char(((b[1] % 4) * 16) + (b[2] \div 16)),
           B64Char(((b[2] % 16) * 4) + (b[3] \div 64)), B64Char(b[3] % 64)>>
         \o b64encode(SubSeq(b, 4, Len(b)))

(***************************************************************************)
(* Python dictionaries and optional values.                                *)
(***************************************************************************)

\* dict.get(k) / an argument that may have been left at None: the empty set
\* is None, {v} is the value v
Opt(d, k) == IF k \in DOMAIN d THEN {d[k]} ELSE {}

\* the truth value Python gives "if x:" for an optional str, int (or float)
\* and dict
TruthyStr(o) == o # {} /\ o # {""}

TruthyInt(o) == o # {} /\ o # {0}

TruthyDict(o) == o # {} /\ \A d \in o : DOMAIN d # {}

\* "if arg: params[k] = arg" for each of the three types, and
\* "if arg is not None: params[k] = arg"
IfStr(args, a, k) == IF TruthyStr(Opt(args, a)) THEN k :> args[a] ELSE <<>>

IfInt(args, a, k) == IF TruthyInt(Opt(args, a)) THEN k :> args[a] ELSE <<>>

IfDict(args, a, k) == IF TruthyDict(Opt(args, a)) THEN k :> args[a] ELSE <<>>

IfNotNone(args, a, k) == IF Opt(args, a) # {} THEN k :> args[a] ELSE <<>>

(***************************************************************************)
(* The outcome of running Python code: a returned value or a raised        *)
(* exception (exc is str(e)), with what the run did on the way: the boto3  *)
(* sessions and clients it created and the calls it made on a client.      *)
(***************************************************************************)
\* no value: the call raised, or the tool did not run
NoResult == [raised |-> TRUE]

Returned(value, sessions, clients, calls) ==
    [raised |-> FALSE, exc |-> "", result |-> value,
     sessions |-> sessions, clients |-> clients, calls |-> calls]

Raised(exc, sessions, clients, calls) ==
    [raised |-> TRUE, exc |-> exc, result |-> NoResult,
     sessions |-> sessions, clients |-> clients, calls |-> calls]

(***************************************************************************)
(* What the world outside the process does during one call: creating the   *)
(* session or the client fails, the backing call raises, or it returns a   *)
(* response.                                                               *)
(***************************************************************************)
SessionFault == "The config profile could not be found"

ClientFault == "Provided region_name doesn't match a supported format."

BackingFault == "An error occurred (ResourceNotFoundException)"

Fails(point, exc) == [point |-> point, exc |-> exc, response |-> <<>>]

Responds(r) == [point |-> "return", exc |-> "", response |-> r]

Faults ==
    {Fails("session", SessionFault), Fails("client", ClientFault),
     Fails("raise", BackingFault)}

World(responses) == Faults \cup {Responds(r) : r \in responses}

\* the call served before the one being served: how it ended ("none" when
\* there was none, "blocked", "error", "value") and the clients it created.
\* No statement of the server reads it.
VARIABLE earlier

NoEarlier == [outcome |-> "none", clients |-> <<>>]

(***************************************************************************)
(* common.py                                                               *)
(***************************************************************************)

\* the strings mutation_check treats as true: 'true', '1', 'yes'
TrueLike == {<<116, 114, 117, 101>>, <<49>>, <<121, 101, 115>>}

MutationBlocked ==
    [error |-> "Mutation not allowed: KINESIS-MCP-READONLY is set to true."]

\* a faulty variant: the comparison without .lower()
readonly_exact(env) ==
    "KINESIS-MCP-READONLY" \in DOMAIN env /\ env["KINESIS-MCP-READONLY"] \in TrueLike

\* os.environ.get('KINESIS-MCP-READONLY', '').lower() in ('true', '1', 'yes')
readonly(env) ==
    LET value == IF "KINESIS-MCP-READONLY" \in DOMAIN env
                 THEN env["KINESIS-MCP-READONLY"] ELSE <<>>
    IN  Lower(value) \in TrueLike

\* a faulty variant: the check made after the wrapped function has run
mutation_check_late(env, func) ==
    IF readonly(env)
    THEN Returned(MutationBlocked, func.sessions, func.clients, func.calls)
    ELSE func

\* a faulty variant: the flag is tested once the client is resolved and the
\* request built, so an exception of these two steps comes first
mutation_check_after_build(env, func) ==
    IF func.raised /\ func.calls = <<>> THEN func
    ELSE IF readonly(env)
    THEN Returned(MutationBlocked, func.sessions, func.clients, <<>>)
    ELSE func

\* a faulty variant: the flag is read by the first call served and kept, so
\* a call is blocked when the call before it was
mutation_check_captured(env, func) ==
    IF earlier.outcome = "blocked" \/ (earlier.outcome = "none" /\ readonly(env))
    THEN Returned(MutationBlocked, 0, <<>>, <<>>)
    ELSE func

\* mutation_check.wrapper: the fixed error when the variable is true-like,
\* else whatever the wrapped function does
mutation_check(env, func) ==
    IF readonly(env)
    THEN Returned(MutationBlocked, 0, <<>>, <<>>)
    ELSE func

\* a faulty variant: no try/except around the wrapped function
handle_exceptions_reraise(func) == func

\* handle_exceptions.wrapper: an exception of the wrapped function becomes
\* the returned dictionary {'error': str(e)}
handle_exceptions(func) ==
    IF func.raised
    THEN Returned([error |-> func.exc], func.sessions, func.clients, func.calls)
    ELSE func

(***************************************************************************)
(* server.py                                                               *)
(***************************************************************************)

\* a faulty variant: the environment variable ahead of the argument
region_env_first(region_name, env) ==
    IF TruthyStr(Opt(env, "AWS_REGION")) THEN env["AWS_REGION"]
    ELSE IF TruthyStr(region_name) THEN CHOOSE r \in region_name : TRUE
    ELSE "us-west-2"

\* region_name or os.getenv('AWS_REGION') or 'us-west-2'
region(region_name, env) ==
    IF TruthyStr(region_name) THEN CHOOSE r \in region_name : TRUE
    ELSE IF TruthyStr(Opt(env, "AWS_REGION")) THEN env["AWS_REGION"]
    ELSE "us-west-2"

\* a faulty variant: the client of the earlier call is kept at module level
\* and used again
get_kinesis_client_cached(region_name, env, w) ==
    IF earlier.clients # <<>> THEN Returned(earlier.clients[1], 0, <<>>, <<>>)
    ELSE IF w.point \in {"session", "client"} THEN Raised(w.exc, 1, <<>>, <<>>)
    ELSE Returned([service |-> "kinesis",
                   region_name |-> region(region_name, env),
                   user_agent_extra |-> "MCP/KinesisServer"], 1, <<>>, <<>>)

\* get_kinesis_client: one boto3.Session(), then one
\* session.client('kinesis', region_name=region, config=config)
get_kinesis_client(region_name, env, w) ==
    IF w.point = "session" THEN Raised(w.exc, 1, <<>>, <<>>)
    ELSE IF w.point = "client" THEN Raised(w.exc, 1, <<>>, <<>>)
    ELSE Returned([service |-> "kinesis",
                   region_name |-> region(region_name, env),
                   user_agent_extra |-> "MCP/KinesisServer"], 1, <<>>, <<>>)

\* a faulty variant: a failed backing call is tried a second time
Body_retry(args, env, w, method, built, mapped) ==
    LET c == get_kinesis_client(Opt(args, "region_name"), env, w)
        clients == <<c.result>>
        call == [method |-> method, params |-> built.result,
                 region_name |-> c.result.region_name]
    IN  IF c.raised THEN c
        ELSE IF built.raised THEN Raised(built.exc, c.sessions, clients, <<>>)
        ELSE IF w.point = "raise"
        THEN Raised(w.exc, c.sessions, clients, <<call, call>>)
        ELSE IF mapped.raised
        THEN Raised(mapped.exc, c.sessions, clients, <<call>>)
        ELSE Returned(mapped.result, c.sessions, clients, <<call>>)

\* the body of a tool once its request is built: client.<method>(**params),
\* then the mapping of the response.  built and mapped are the outcomes of
\* building the request and of mapping w.response.
Body(args, env, w, method, built, mapped) ==
    LET c == get_kinesis_client(Opt(args, "region_name"), env, w)
        clients == <<c.result>>
        call == [method |-> method, params |-> built.result,
                 region_name |-> c.result.region_name]
    IN  IF c.raised THEN c
        ELSE IF built.raised THEN Raised(built.exc, c.sessions, clients, <<>>)
        ELSE IF w.point = "raise" THEN Raised(w.exc, c.sessions, clients, <<call>>)
        ELSE IF mapped.raised
        THEN Raised(mapped.exc, c.sessions, clients, <<call>>)
        ELSE Returned(mapped.result, c.sessions, clients, <<call>>)

\* a request or a result obtained without an exception
Ok(value) == Returned(value, 0, <<>>, <<>>)

\* a KeyError: str(e) is the repr of the key
KeyError(key) == Raised(key, 0, <<>>, <<>>)

\* response.get(k, default)
Get(d, k, default) == IF k \in DOMAIN d THEN d[k] ELSE default

\* "if stream_name: ...; if stream_arn: ..." shared by most tools
StreamKeys(args) ==
    IfStr(args, "stream_name", "StreamName") @@ IfStr(args, "stream_arn", "StreamARN")

\* a faulty variant: the result is taken from the response
create_stream_echo(args, env, w) ==
    handle_exceptions(mutation_check(env,
        Body(args, env, w, "create_stream",
             Ok(("StreamName" :> args.stream_name)
                @@ IfInt(args, "shard_count", "ShardCount")
                @@ IfDict(args, "stream_mode_details", "StreamModeDetails")),
             Ok([StreamName |-> Get(w.response, "StreamName", args.stream_name),
                 Status |-> Get(w.response, "StreamStatus", "CREATING")]))))

create_stream(args, env, w) ==
    handle_exceptions(mutation_check(env,
        Body(args, env, w, "create_stream",
             Ok(("StreamName" :> args.stream_name)
                @@ IfInt(args, "shard_count", "ShardCount")
                @@ IfDict(args, "stream_mode_details", "StreamModeDetails")),
             Ok([StreamName |-> args.stream_name, Status |-> "CREATING"]))))

delete_stream(args, env, w) ==
    handle_exceptions(mutation_check(env,
        Body(args, env, w, "delete_stream",
             Ok(("StreamName" :> args.stream_name)
                @@ IfNotNone(args, "enforce_consumer_deletion",
                             "EnforceConsumerDeletion")),
             Ok([StreamName |-> args.stream_name, Status |-> "DELETING"]))))

\* a faulty variant: describe_stream carries @mutation_check
describe_stream_gated(args, env, w) ==
    handle_exceptions(mutation_check(env,
        Body(args, env, w, "describe_stream",
             Ok(("StreamName" :> args.stream_name)
                @@ IfInt(args, "limit", "Limit")
                @@ IfStr(args, "exclusive_start_shard_id", "ExclusiveStartShardId")
                @@ IfStr(args, "stream_arn", "StreamARN")),
             IF "StreamDescription" \in DOMAIN w.response
             THEN Ok(w.response.StreamDescription)
             ELSE KeyError("'StreamDescription'"))))

describe_stream(args, env, w) ==
    handle_exceptions(
        Body(args, env, w, "describe_stream",
             Ok(("StreamName" :> args.stream_name)
                @@ IfInt(args, "limit", "Limit")
                @@ IfStr(args, "exclusive_start_shard_id", "ExclusiveStartShardId")
                @@ IfStr(args, "stream_arn", "StreamARN")),
             IF "StreamDescription" \in DOMAIN w.response
             THEN Ok(w.response.StreamDescription)
             ELSE KeyError("'StreamDescription'")))

describe_stream_summary(args, env, w) ==
    handle_exceptions(
        Body(args, env, w, "describe_stream_summary",
             Ok(("StreamName" :> args.stream_name)
                @@ IfStr(args, "stream_arn", "StreamARN")),
             IF "StreamDescriptionSummary" \in DOMAIN w.response
             THEN Ok(w.response.StreamDescriptionSummary)
             ELSE KeyError("'StreamDescriptionSummary'")))

list_streams(args, env, w) ==
    handle_exceptions(
        Body(args, env, w, "list_streams",
             Ok(IfInt(args, "limit", "Limit")
                @@ IfStr(args, "exclusive_start_stream_name",
                         "ExclusiveStartStreamName")
                @@ IfStr(args, "next_token", "NextToken")),
             Ok([StreamNames |-> Get(w.response, "StreamNames", <<>>),
                 HasMoreStreams |-> Get(w.response, "HasMoreStreams", FALSE),
                 NextToken |-> Opt(w.response, "NextToken"),
                 StreamSummaries |-> Get(w.response, "StreamSummaries", <<>>)])))

list_shards(args, env, w) ==
    handle_exceptions(
        Body(args, env, w, "list_shards",
             Ok(IfStr(args, "stream_name", "StreamName")
                @@ IfStr(args, "next_token", "NextToken")
                @@ IfStr(args, "exclusive_start_shard_id", "ExclusiveStartShardId")
                @@ IfInt(args, "max_results", "MaxResults")
                @@ IfInt(args, "stream_creation_timestamp",
                         "StreamCreationTimestamp")
                @@ IfStr(args, "stream_arn", "StreamARN")),
             Ok([Shards |-> Get(w.response, "Shards", <<>>),
                 NextToken |-> Opt(w.response, "NextToken")])))

update_shard_count(args, env, w) ==
    handle_exceptions(mutation_check(env,
        Body(args, env, w, "update_shard_count",
             Ok([StreamName |-> args.stream_name,
                 TargetShardCount |-> args.target_shard_count,
                 ScalingType |-> args.scaling_type]),
             Ok([StreamName |-> Opt(w.response, "StreamName"),
                 CurrentShardCount |-> Opt(w.response, "CurrentShardCount"),
                 TargetShardCount |-> Opt(w.response, "TargetShardCount")]))))

update_stream_mode(args, env, w) ==
    handle_exceptions(mutation_check(env,
        Body(args, env, w, "update_stream_mode",
             Ok([StreamARN |-> args.stream_arn,
                 StreamModeDetails |-> args.stream_mode_details]),
             Ok([StreamARN |-> args.stream_arn,
                 StreamModeDetails |-> args.stream_mode_details]))))

(***************************************************************************)
(* Record data.  A data value is tagged with its Python type: a str (code  *)
(* points), bytes, or None.                                                *)
(***************************************************************************)
Str(s) == [t |-> "str", v |-> s]

Bytes(b) == [t |-> "bytes", v |-> b]

None == [t |-> "none", v |-> <<>>]

\* a faulty variant: a str is always UTF-8 encoded
encode_data_literal(data) ==
    IF data.t = "str" THEN Bytes(encode_utf8(data.v)) ELSE data

\* the encoding of put_record and put_records: a str is base64-decoded and,
\* when b64decode raises, UTF-8 encoded; any other value is passed on as is
encode_data(data) ==
    IF data.t = "str"
    THEN LET d == b64decode(data.v)
         IN  IF d.ok THEN Bytes(d.bytes) ELSE Bytes(encode_utf8(data.v))
    ELSE data

put_record(args, env, w) ==
    handle_exceptions(mutation_check(env,
        Body(args, env, w, "put_record",
             Ok([Data |-> encode_data(args.data),
                 PartitionKey |-> args.partition_key]
                @@ StreamKeys(args)
                @@ IfStr(args, "explicit_hash_key", "ExplicitHashKey")
                @@ IfStr(args, "sequence_number_for_ordering",
                         "SequenceNumberForOrdering")),
             Ok([ShardId |-> Opt(w.response, "ShardId"),
                 SequenceNumber |-> Opt(w.response, "SequenceNumber"),
                 EncryptionType |-> Opt(w.response, "EncryptionType")]))))

\* a faulty variant: the Data of an entry is always UTF-8 encoded
processed_record_literal(record) ==
    [Data |-> encode_data_literal(Get(record, "Data", None)),
     PartitionKey |-> record.PartitionKey]
    @@ (IF "ExplicitHashKey" \in DOMAIN record
        THEN "ExplicitHashKey" :> record.ExplicitHashKey ELSE <<>>)

\* one entry of the batch; record['PartitionKey'] raises KeyError when the
\* key is missing, record.get('Data') is None when Data is
processed_record(record) ==
    [Data |-> encode_data(Get(record, "Data", None)),
     PartitionKey |-> record.PartitionKey]
    @@ (IF "ExplicitHashKey" \in DOMAIN record
        THEN "ExplicitHashKey" :> record.ExplicitHashKey ELSE <<>>)

\* a faulty variant: a record without PartitionKey is left out and the rest
\* of the batch is sent
processed_records_skip(records) ==
    LET RECURSIVE kept(_)
        kept(i) ==
            IF i > Len(records) THEN <<>>
            ELSE IF "PartitionKey" \in DOMAIN records[i]
            THEN <<processed_record(records[i])>> \o kept(i + 1)
            ELSE kept(i + 1)
    IN  Ok(kept(1))

processed_records(records) ==
    IF \E i \in 1..Len(records) : "PartitionKey" \notin DOMAIN records[i]
    THEN KeyError("'PartitionKey'")
    ELSE Ok([i \in 1..Len(records) |-> processed_record(records[i])])

\* a faulty variant: a response that reports failed records is made an error
put_records_strict(args, env, w) ==
    handle_exceptions(mutation_check(env,
        Body(args, env, w, "put_records",
             LET p == processed_records(args.records)
             IN  IF p.raised THEN p
                 ELSE Ok(("Records" :> p.result) @@ StreamKeys(args)),
             IF Get(w.response, "FailedRecordCount", 0) > 0
             THEN Raised("records failed", 0, <<>>, <<>>)
             ELSE Ok([FailedRecordCount |-> Get(w.response, "FailedRecordCount", 0),
                      Records |-> Get(w.response, "Records", <<>>),
                      EncryptionType |-> Opt(w.response, "EncryptionType")]))))

put_records(args, env, w) ==
    handle_exceptions(mutation_check(env,
        Body(args, env, w, "put_records",
             LET p == processed_records(args.records)
             IN  IF p.raised THEN p
                 ELSE Ok(("Records" :> p.result) @@ StreamKeys(args)),
             Ok([FailedRecordCount |-> Get(w.response, "FailedRecordCount", 0),
                 Records |-> Get(w.response, "Records", <<>>),
                 EncryptionType |-> Opt(w.response, "EncryptionType")]))))

get_shard_iterator(args, env, w) ==
    handle_exceptions(
        Body(args, env, w, "get_shard_iterator",
             Ok([ShardId |-> args.shard_id,
                 ShardIteratorType |-> args.shard_iterator_type]
                @@ StreamKeys(args)
                @@ IfStr(args, "starting_sequence_number", "StartingSequenceNumber")
                @@ IfInt(args, "timestamp", "Timestamp")),
             Ok([ShardIterator |-> Opt(w.response, "ShardIterator")])))

\* a faulty variant: DataBase64 is added to every record with Data
decode_record_both(record) ==
    IF "Data" \in DOMAIN record
    THEN LET d == decode_utf8(record.Data)
         IN  (IF d.ok THEN "DataString" :> d.str ELSE <<>>)
             @@ ("DataBase64" :> b64encode(record.Data)) @@ record
    ELSE record

\* the decoding of get_records: a record with Data gets DataString when its
\* bytes decode as UTF-8 and DataBase64 when decoding raises
decode_record(record) ==
    IF "Data" \in DOMAIN record
    THEN LET d == decode_utf8(record.Data)
         IN  IF d.ok THEN ("DataString" :> d.str) @@ record
             ELSE ("DataBase64" :> b64encode(record.Data)) @@ record
    ELSE record

get_records(args, env, w) ==
    handle_exceptions(
        Body(args, env, w, "get_records",
             Ok(("ShardIterator" :> args.shard_iterator)
                @@ IfInt(args, "limit", "Limit")
                @@ IfStr(args, "stream_arn", "StreamARN")),
             LET records == Get(w.response, "Records", <<>>)
             IN  Ok([Records |-> [i \in 1..Len(records) |-> decode_record(records[i])],
                     NextShardIterator |-> Opt(w.response, "NextShardIterator"),
                     MillisBehindLatest |-> Opt(w.response, "MillisBehindLatest")])))

merge_shards(args, env, w) ==
    handle_exceptions(mutation_check(env,
        Body(args, env, w, "merge_shards",
             Ok([ShardToMerge |-> args.shard_to_merge,
                 AdjacentShardToMerge |-> args.adjacent_shard_to_merge]
                @@ StreamKeys(args)),
             Ok([Status |-> "Merge initiated"]))))

split_shard(args, env, w) ==
    handle_exceptions(mutation_check(env,
        Body(args, env, w, "split_shard",
             Ok([ShardToSplit |-> args.shard_to_split,
                 NewStartingHashKey |-> args.new_starting_hash_key]
                @@ StreamKeys(args)),
             Ok([Status |-> "Split initiated"]))))

enable_enhanced_monitoring(args, env, w) ==
    handle_exceptions(mutation_check(env,
        Body(args, env, w, "enable_enhanced_monitoring",
             Ok(("ShardLevelMetrics" :> args.shard_level_metrics)
                @@ StreamKeys(args)),
             Ok([StreamName |-> Opt(w.response, "StreamName"),
                 CurrentShardLevelMetrics |->
                     Get(w.response, "CurrentShardLevelMetrics", <<>>),
                 DesiredShardLevelMetrics |->
                     Get(w.response, "DesiredShardLevelMetrics", <<>>)]))))

disable_enhanced_monitoring(args, env, w) ==
    handle_exceptions(mutation_check(env,
        Body(args, env, w, "disable_enhanced_monitoring",
             Ok(("ShardLevelMetrics" :> args.shard_level_metrics)
                @@ StreamKeys(args)),
             Ok([StreamName |-> Opt(w.response, "StreamName"),
                 CurrentShardLevelMetrics |->
                     Get(w.response, "CurrentShardLevelMetrics", <<>>),
                 DesiredShardLevelMetrics |->
                     Get(w.response, "DesiredShardLevelMetrics", <<>>)]))))

start_stream_encryption(args, env, w) ==
    handle_exceptions(mutation_check(env,
        Body(args, env, w, "start_stream_encryption",
             Ok([EncryptionType |-> args.encryption_type, KeyId |-> args.key_id]
                @@ StreamKeys(args)),
             Ok([Status |-> "Encryption started"]))))

stop_stream_encryption(args, env, w) ==
    handle_exceptions(mutation_check(env,
        Body(args, env, w, "stop_stream_encryption",
             Ok([EncryptionType |-> args.encryption_type, KeyId |-> args.key_id]
                @@ StreamKeys(args)),
             Ok([Status |-> "Encryption stopped"]))))

add_tags_to_stream(args, env, w) ==
    handle_exceptions(mutation_check(env,
        Body(args, env, w, "add_tags_to_stream",
             Ok(("Tags" :> args.tags)
                @@ StreamKeys(args)),
             Ok([Status |-> "Tags added successfully"]))))

remove_tags_from_stream(args, env, w) ==
    handle_exceptions(mutation_check(env,
        Body(args, env, w, "remove_tags_from_stream",
             Ok(("TagKeys" :> args.tag_keys)
                @@ StreamKeys(args)),
             Ok([Status |-> "Tags removed successfully"]))))

list_tags_for_stream(args, env, w) ==
    handle_exceptions(
        Body(args, env, w, "list_tags_for_stream",
             Ok(StreamKeys(args)
                @@ IfStr(args, "exclusive_start_tag_key", "ExclusiveStartTagKey")
                @@ IfInt(args, "limit", "Limit")),
             Ok([Tags |-> Get(w.response, "Tags", <<>>),
                 HasMoreTags |-> Get(w.response, "HasMoreTags", FALSE)])))

\* the bounds declared for retention_period_hours: Field(ge=24, le=8760)
MinRetentionHours == 24

MaxRetentionHours == 8760

increase_stream_retention_period(args, env, w) ==
    handle_exceptions(mutation_check(env,
        Body(args, env, w, "increase_stream_retention_period",
             Ok(("RetentionPeriodHours" :> args.retention_period_hours)
                @@ StreamKeys(args)),
             Ok([Status |-> "Retention period increased"]))))

decrease_stream_retention_period(args, env, w) ==
    handle_exceptions(mutation_check(env,
        Body(args, env, w, "decrease_stream_retention_period",
             Ok(("RetentionPeriodHours" :> args.retention_period_hours)
                @@ StreamKeys(args)),
             Ok([Status |-> "Retention period decreased"]))))

register_stream_consumer(args, env, w) ==
    handle_exceptions(mutation_check(env,
        Body(args, env, w, "register_stream_consumer",
             Ok([StreamARN |-> args.stream_arn,
                 ConsumerName |-> args.consumer_name]),
             Ok(Get(w.response, "Consumer", <<>>)))))

\* "if stream_arn: ...; if consumer_name: ...; if consumer_arn: ..."
ConsumerKeys(args) ==
    IfStr(args, "stream_arn", "StreamARN")
    @@ IfStr(args, "consumer_name", "ConsumerName")
    @@ IfStr(args, "consumer_arn", "ConsumerARN")

deregister_stream_consumer(args, env, w) ==
    handle_exceptions(mutation_check(env,
        Body(args, env, w, "deregister_stream_consumer",
             Ok(ConsumerKeys(args)),
             Ok([Status |-> "Consumer deregistered"]))))

describe_stream_consumer(args, env, w) ==
    handle_exceptions(
        Body(args, env, w, "describe_stream_consumer",
             Ok(ConsumerKeys(args)),
             Ok(Get(w.response, "ConsumerDescription", <<>>))))

list_stream_consumers(args, env, w) ==
    handle_exceptions(
        Body(args, env, w, "list_stream_consumers",
             Ok(("StreamARN" :> args.stream_arn)
                @@ IfStr(args, "next_token", "NextToken")
                @@ IfInt(args, "max_results", "MaxResults")
                @@ IfInt(args, "stream_creation_timestamp",
                         "StreamCreationTimestamp")),
             Ok([Consumers |-> Get(w.response, "Consumers", <<>>),
                 NextToken |-> Opt(w.response, "NextToken")])))

(***************************************************************************)
(* The state: the process environment, and the call being served with what *)
(* it did.  The server keeps nothing else between calls.                   *)
(***************************************************************************)
VARIABLES
    environ,     \* os.environ: the variables that are set, with their values
    phase,       \* "idle", or "done" once a call has run and before its reply
    tool,        \* the tool called
    args,        \* its arguments (a key is missing when the argument is None)
    world,       \* what the session, the client and the backing call do
    admitted,    \* the arguments satisfy the declared Field constraints
    result,      \* the value returned to the caller
    propagated,  \* an exception left the tool
    sessions,    \* boto3.Session() calls made by this call
    clients,     \* clients created by this call
    calls,       \* calls this call made to the backing service
    inflight     \* the calls served at the same time, each with its own
                 \* position and locals (used when calls overlap)

vars == <<environ, phase, tool, args, world, admitted, result, propagated,
          sessions, clients, calls, earlier, inflight>>

(***************************************************************************)
(* The values the environment variables take.                             *)
(***************************************************************************)
\* 'true', 'TRUE', '1', 'yes', 'Yes'
TrueValues ==
    {<<116, 114, 117, 101>>, <<84, 82, 85, 69>>, <<49>>, <<121, 101, 115>>,
     <<89, 101, 115>>}

\* '', 'false', '0', 'no', 'on', ' true', 'true '
OtherValues ==
    {<<>>, <<102, 97, 108, 115, 101>>, <<48>>, <<110, 111>>, <<111, 110>>,
     <<32, 116, 114, 117, 101>>, <<116, 114, 117, 101, 32>>}

ReadonlyValues == TrueValues \cup OtherValues

RegionValues == {"", "eu-west-1"}

EnvValues(name) ==
    IF name = "KINESIS-MCP-READONLY" THEN ReadonlyValues ELSE RegionValues

EnvNames == {"KINESIS-MCP-READONLY", "AWS_REGION"}

Environs ==
    {ro @@ rg : ro \in {<<>>} \cup {"KINESIS-MCP-READONLY" :> v : v \in ReadonlyValues},
                rg \in {<<>>} \cup {"AWS_REGION" :> v : v \in RegionValues}}

(***************************************************************************)
(* The arguments of the calls: for each tool a few argument dictionaries   *)
(* (optional arguments absent, present, present with a value Python takes  *)
(* as false, out of the declared range) and one of them with region_name   *)
(* given as '' and as 'us-east-1'.                                         *)
(***************************************************************************)
With(A, B) == {a @@ b : a \in A, b \in B}

Regions(a) == {a, a @@ ("region_name" :> ""), a @@ ("region_name" :> "us-east-1")}

Arn == "arn:aws:kinesis:us-west-2:1:stream/orders"

Orders == [stream_name |-> "orders"]

create_stream_args ==
    Regions(Orders) \cup
    With({Orders},
         {"shard_count" :> 0, "stream_mode_details" :> <<>>,
          [shard_count |-> 4, stream_mode_details |-> [StreamMode |-> "PROVISIONED"]]})

delete_stream_args ==
    Regions(Orders) \cup
    With({Orders}, {"enforce_consumer_deletion" :> b : b \in BOOLEAN})

describe_stream_args ==
    Regions(Orders) \cup
    With({Orders},
         {"limit" :> 0, "exclusive_start_shard_id" :> "",
          [limit |-> 10, exclusive_start_shard_id |-> "shardId-0",
           stream_arn |-> Arn]})

describe_stream_summary_args ==
    Regions(Orders) \cup With({Orders}, {"stream_arn" :> "", "stream_arn" :> Arn})

list_streams_args ==
    Regions(<<>>) \cup
    {"limit" :> 10001, "next_token" :> "",
     [limit |-> 10, exclusive_start_stream_name |-> "orders", next_token |-> "t1"]}

list_shards_args ==
    Regions(<<>>) \cup
    {"stream_name" :> "", "max_results" :> 0, "stream_creation_timestamp" :> 0,
     [stream_name |-> "orders", next_token |-> "t1",
      exclusive_start_shard_id |-> "shardId-0", max_results |-> 10,
      stream_creation_timestamp |-> 1700000000, stream_arn |-> Arn]}

update_shard_count_args ==
    Regions([stream_name |-> "orders", target_shard_count |-> 2,
             scaling_type |-> "UNIFORM_SCALING"]) \cup
    {[stream_name |-> "orders", target_shard_count |-> 0,
      scaling_type |-> "UNIFORM_SCALING"]}

update_stream_mode_args ==
    Regions([stream_arn |-> Arn, stream_mode_details |-> [StreamMode |-> "ON_DEMAND"]])

\* 'hello', 'QQQQ' (the base64 of three bytes), 'n' U+00E9, and the bytes
\* b'A\xc3'
put_record_data ==
    {Str(<<104, 101, 108, 108, 111>>), Str(<<81, 81, 81, 81>>),
     Str(<<110, 233>>), Bytes(<<65, 195>>)}

Hello == [data |-> Str(<<104, 101, 108, 108, 111>>), partition_key |-> "pk1"]

put_record_args ==
    Regions(Hello) \cup
    {[data |-> d, partition_key |-> "pk1"] : d \in put_record_data} \cup
    With({Hello},
         {"explicit_hash_key" :> "",
          [stream_name |-> "orders", stream_arn |-> Arn, explicit_hash_key |-> "7",
           sequence_number_for_ordering |-> "49"]})

\* the records of a batch: complete, with a hash key, without Data, without
\* PartitionKey
RecordHi == [Data |-> Str(<<104, 105>>), PartitionKey |-> "pk1"]

RecordA == [Data |-> Bytes(<<65>>), PartitionKey |-> "pk2", ExplicitHashKey |-> "7"]

RecordNoData == "PartitionKey" :> "pk3"

RecordNoKey == "Data" :> Str(<<81, 81, 61, 61>>)

put_records_args ==
    Regions("records" :> <<RecordHi, RecordA>>) \cup
    {"records" :> r :
        r \in {<<>>, <<RecordHi>>, <<RecordNoData>>, <<RecordA, RecordNoData>>,
               <<RecordNoKey>>, <<RecordHi, RecordNoKey>>}} \cup
    {[records |-> <<RecordHi>>, stream_name |-> "orders", stream_arn |-> Arn]}

Shard(t) == [shard_id |-> "shardId-0", shard_iterator_type |-> t]

get_shard_iterator_args ==
    Regions(Shard("LATEST")) \cup
    {Shard("AT_SEQUENCE_NUMBER"), Shard("AT_TIMESTAMP"),
     Shard("AT_SEQUENCE_NUMBER") @@ [starting_sequence_number |-> "49"],
     Shard("AT_TIMESTAMP") @@ [timestamp |-> 0],
     Shard("AT_TIMESTAMP") @@ [timestamp |-> 1700000000, stream_name |-> "orders",
                               stream_arn |-> Arn]}

get_records_args ==
    Regions([shard_iterator |-> "it-1"]) \cup
    With({[shard_iterator |-> "it-1"]},
         {"limit" :> 0, [limit |-> 10, stream_arn |-> Arn]})

\* a required part with the stream given by nothing, an empty ARN, a name,
\* and a name and an ARN
Streams(a) ==
    Regions(a) \cup
    With({a}, {"stream_arn" :> "", "stream_name" :> "orders",
               [stream_name |-> "orders", stream_arn |-> Arn]})

merge_shards_args ==
    Streams([shard_to_merge |-> "shardId-0", adjacent_shard_to_merge |-> "shardId-1"])

split_shard_args ==
    Streams([shard_to_split |-> "shardId-0", new_starting_hash_key |-> "170"])

monitoring_args == Streams("shard_level_metrics" :> <<"ALL">>)

encryption_args ==
    Streams([encryption_type |-> "KMS", key_id |-> "alias/aws/kinesis"])

add_tags_to_stream_args == Streams("tags" :> [env |-> "prod"])

remove_tags_from_stream_args == Streams("tag_keys" :> <<"env">>)

list_tags_for_stream_args ==
    Regions(<<>>) \cup
    {"limit" :> 51, "exclusive_start_tag_key" :> "",
     [stream_name |-> "orders", stream_arn |-> Arn,
      exclusive_start_tag_key |-> "env", limit |-> 50]}

retention_args ==
    Regions("retention_period_hours" :> MinRetentionHours) \cup
    {"retention_period_hours" :> h :
        h \in {MinRetentionHours - 1, MaxRetentionHours, MaxRetentionHours + 1}} \cup
    {[retention_period_hours |-> 48, stream_name |-> "orders", stream_arn |-> Arn]}

register_stream_consumer_args ==
    Regions([stream_arn |-> Arn, consumer_name |-> "c1"])

consumer_args ==
    Regions("consumer_arn" :> "arn:aws:kinesis:us-west-2:1:stream/orders/consumer/c1")
    \cup {<<>>, "consumer_name" :> "", [stream_arn |-> Arn, consumer_name |-> "c1"]}

list_stream_consumers_args ==
    Regions([stream_arn |-> Arn]) \cup
    With({[stream_arn |-> Arn]},
         {"max_results" :> 0, "stream_creation_timestamp" :> 0,
          [next_token |-> "t1", max_results |-> 10,
           stream_creation_timestamp |-> 1700000000]})

(***************************************************************************)
(* The responses of the backing service: the empty response {}, and one    *)
(* with the fields the tool reads.                                         *)
(***************************************************************************)
Empty == <<>>

Consumer == [ConsumerName |-> "c1", ConsumerStatus |-> "ACTIVE"]

Responses(t) ==
    {Empty} \cup
    CASE t = "describe_stream" ->
            {[StreamDescription |-> [StreamName |-> "orders", StreamStatus |-> "ACTIVE"]]}
      [] t = "describe_stream_summary" ->
            {[StreamDescriptionSummary |-> [StreamName |-> "orders", OpenShardCount |-> 4]]}
      [] t = "list_streams" ->
            {[StreamNames |-> <<"orders">>, HasMoreStreams |-> TRUE, NextToken |-> "t2"]}
      [] t = "list_shards" ->
            {[Shards |-> <<[ShardId |-> "shardId-0"]>>, NextToken |-> "t2"]}
      [] t \in {"create_stream", "delete_stream"} ->
            {[StreamName |-> "other", StreamStatus |-> "ACTIVE"]}
      [] t = "update_shard_count" ->
            {[StreamName |-> "orders", CurrentShardCount |-> 4, TargetShardCount |-> 2]}
      [] t = "put_record" ->
            {[ShardId |-> "shardId-0", SequenceNumber |-> "49",
              EncryptionType |-> "NONE"]}
      [] t = "put_records" ->
            {[FailedRecordCount |-> 1,
              Records |-> <<[ErrorCode |-> "ProvisionedThroughputExceededException"]>>],
             [FailedRecordCount |-> 0,
              Records |-> <<[ShardId |-> "shardId-0", SequenceNumber |-> "49"]>>,
              EncryptionType |-> "KMS"]}
      [] t = "get_shard_iterator" -> {[ShardIterator |-> "it-1"]}
      [] t = "get_records" ->
            {[Records |-> <<[Data |-> <<104, 105>>, PartitionKey |-> "pk1"]>>,
              NextShardIterator |-> "it-2", MillisBehindLatest |-> 0],
             [Records |-> <<[Data |-> <<195>>, PartitionKey |-> "pk1"],
                            "PartitionKey" :> "pk2">>]}
      [] t \in {"enable_enhanced_monitoring", "disable_enhanced_monitoring"} ->
            {[StreamName |-> "orders", CurrentShardLevelMetrics |-> <<>>,
              DesiredShardLevelMetrics |-> <<"ALL">>]}
      [] t = "list_tags_for_stream" ->
            {[Tags |-> <<[Key |-> "env", Value |-> "prod"]>>, HasMoreTags |-> TRUE]}
      [] t = "register_stream_consumer" -> {[Consumer |-> Consumer]}
      [] t = "describe_stream_consumer" -> {[ConsumerDescription |-> Consumer]}
      [] t = "list_stream_consumers" ->
            {[Consumers |-> <<Consumer>>, NextToken |-> "t2"]}
      [] OTHER -> {}

(***************************************************************************)
(* The declared argument constraints: Field(ge=..., le=...).  A call whose *)
(* arguments break them is refused by the tool layer and the tool          *)
(* function does not run.                                                  *)
(***************************************************************************)
Within(a, name, lo, hi) == name \in DOMAIN a => (a[name] >= lo /\ a[name] <= hi)

AtLeast(a, name, lo) == name \in DOMAIN a => a[name] >= lo

\* a faulty variant: no bound is declared on any argument
Constraints_none(t, a) == TRUE

Constraints(t, a) ==
    CASE t = "create_stream" -> AtLeast(a, "shard_count", 1)
      [] t = "update_shard_count" -> AtLeast(a, "target_shard_count", 1)
      [] t \in {"describe_stream", "list_streams", "get_records"} ->
            Within(a, "limit", 1, 10000)
      [] t \in {"list_shards", "list_stream_consumers"} ->
            Within(a, "max_results", 1, 10000)
      [] t = "list_tags_for_stream" -> Within(a, "limit", 1, 50)
      [] t \in {"increase_stream_retention_period",
                "decrease_stream_retention_period"} ->
            Within(a, "retention_period_hours", MinRetentionHours, MaxRetentionHours)
      [] OTHER -> TRUE

(***************************************************************************)
(* The server.                                                             *)
(***************************************************************************)
Idle ==
    /\ phase = "idle"
    /\ tool = ""
    /\ args = <<>>
    /\ world = Responds(Empty)
    /\ admitted = FALSE
    /\ result = NoResult
    /\ propagated = FALSE
    /\ sessions = 0
    /\ clients = <<>>
    /\ calls = <<>>
    /\ earlier = NoEarlier

Init == environ \in Environs /\ Idle /\ inflight = <<>>

\* one call of tool t with arguments a: refused when the arguments break the
\* declared constraints, else run to its end (no tool awaits anything after
\* it has started), leaving what it did
Serve(t, a, w, run) ==
    /\ phase = "idle"
    /\ phase' = "done"
    /\ tool' = t
    /\ args' = a
    /\ world' = w
    /\ admitted' = Constraints(t, a)
    /\ IF Constraints(t, a)
       THEN /\ result' = run.result
            /\ propagated' = run.raised
            /\ sessions' = run.sessions
            /\ clients' = run.clients
            /\ calls' = run.calls
       ELSE /\ result' = NoResult
            /\ propagated' = FALSE
            /\ sessions' = 0
            /\ clients' = <<>>
            /\ calls' = <<>>
    /\ UNCHANGED <<environ, earlier, inflight>>

tool_create_stream ==
    /\ phase = "idle"
    /\ \E a \in create_stream_args, w \in World(Responses("create_stream")) :
          Serve("create_stream", a, w, create_stream(a, environ, w))

tool_delete_stream ==
    /\ phase = "idle"
    /\ \E a \in delete_stream_args, w \in World(Responses("delete_stream")) :
          Serve("delete_stream", a, w, delete_stream(a, environ, w))

tool_describe_stream ==
    /\ phase = "idle"
    /\ \E a \in describe_stream_args, w \in World(Responses("describe_stream")) :
          Serve("describe_stream", a, w, describe_stream(a, environ, w))

tool_describe_stream_summary ==
    /\ phase = "idle"
    /\ \E a \in describe_stream_summary_args, w \in World(Responses("describe_stream_summary")) :
          Serve("describe_stream_summary", a, w, describe_stream_summary(a, environ, w))

tool_list_streams ==
    /\ phase = "idle"
    /\ \E a \in list_streams_args, w \in World(Responses("list_streams")) :
          Serve("list_streams", a, w, list_streams(a, environ, w))

tool_list_shards ==
    /\ phase = "idle"
    /\ \E a \in list_shards_args, w \in World(Responses("list_shards")) :
          Serve("list_shards", a, w, list_shards(a, environ, w))

tool_update_shard_count ==
    /\ phase = "idle"
    /\ \E a \in update_shard_count_args, w \in World(Responses("update_shard_count")) :
          Serve("update_shard_count", a, w, update_shard_count(a, environ, w))

tool_update_stream_mode ==
    /\ phase = "idle"
    /\ \E a \in update_stream_mode_args, w \in World(Responses("update_stream_mode")) :
          Serve("update_stream_mode", a, w, update_stream_mode(a, environ, w))

tool_get_shard_iterator ==
    /\ phase = "idle"
    /\ \E a \in get_shard_iterator_args, w \in World(Responses("get_shard_iterator")) :
          Serve("get_shard_iterator", a, w, get_shard_iterator(a, environ, w))

tool_merge_shards ==
    /\ phase = "idle"
    /\ \E a \in merge_shards_args, w \in World(Responses("merge_shards")) :
          Serve("merge_shards", a, w, merge_shards(a, environ, w))

tool_split_shard ==
    /\ phase = "idle"
    /\ \E a \in split_shard_args, w \in World(Responses("split_shard")) :
          Serve("split_shard", a, w, split_shard(a, environ, w))

tool_enable_enhanced_monitoring ==
    /\ phase = "idle"
    /\ \E a \in monitoring_args, w \in World(Responses("enable_enhanced_monitoring")) :
          Serve("enable_enhanced_monitoring", a, w, enable_enhanced_monitoring(a, environ, w))

tool_disable_enhanced_monitoring ==
    /\ phase = "idle"
    /\ \E a \in monitoring_args, w \in World(Responses("disable_enhanced_monitoring")) :
          Serve("disable_enhanced_monitoring", a, w, disable_enhanced_monitoring(a, environ, w))

tool_start_stream_encryption ==
    /\ phase = "idle"
    /\ \E a \in encryption_args, w \in World(Responses("start_stream_encryption")) :
          Serve("start_stream_encryption", a, w, start_stream_encryption(a, environ, w))

tool_stop_stream_encryption ==
    /\ phase = "idle"
    /\ \E a \in encryption_args, w \in World(Responses("stop_stream_encryption")) :
          Serve("stop_stream_encryption", a, w, stop_stream_encryption(a, environ, w))

tool_add_tags_to_stream ==
    /\ phase = "idle"
    /\ \E a \in add_tags_to_stream_args, w \in World(Responses("add_tags_to_stream")) :
          Serve("add_tags_to_stream", a, w, add_tags_to_stream(a, environ, w))

tool_remove_tags_from_stream ==
    /\ phase = "idle"
    /\ \E a \in remove_tags_from_stream_args, w \in World(Responses("remove_tags_from_stream")) :
          Serve("remove_tags_from_stream", a, w, remove_tags_from_stream(a, environ, w))

tool_list_tags_for_stream ==
    /\ phase = "idle"
    /\ \E a \in list_tags_for_stream_args, w \in World(Responses("list_tags_for_stream")) :
          Serve("list_tags_for_stream", a, w, list_tags_for_stream(a, environ, w))

tool_increase_stream_retention_period ==
    /\ phase = "idle"
    /\ \E a \in retention_args, w \in World(Responses("increase_stream_retention_period")) :
          Serve("increase_stream_retention_period", a, w, increase_stream_retention_period(a, environ, w))

tool_decrease_stream_retention_period ==
    /\ phase = "idle"
    /\ \E a \in retention_args, w \in World(Responses("decrease_stream_retention_period")) :
          Serve("decrease_stream_retention_period", a, w, decrease_stream_retention_period(a, environ, w))

tool_register_stream_consumer ==
    /\ phase = "idle"
    /\ \E a \in register_stream_consumer_args, w \in World(Responses("register_stream_consumer")) :
          Serve("register_stream_consumer", a, w, register_stream_consumer(a, environ, w))

tool_deregister_stream_consumer ==
    /\ phase = "idle"
    /\ \E a \in consumer_args, w \in World(Responses("deregister_stream_consumer")) :
          Serve("deregister_stream_consumer", a, w, deregister_stream_consumer(a, environ, w))

tool_describe_stream_consumer ==
    /\ phase = "idle"
    /\ \E a \in consumer_args, w \in World(Responses("describe_stream_consumer")) :
          Serve("describe_stream_consumer", a, w, describe_stream_consumer(a, environ, w))

tool_list_stream_consumers ==
    /\ phase = "idle"
    /\ \E a \in list_stream_consumers_args, w \in World(Responses("list_stream_consumers")) :
          Serve("list_stream_consumers", a, w, list_stream_consumers(a, environ, w))

\* put_record and get_records over a given set of arguments and outcomes
PutRecords(A, W) ==
    /\ phase = "idle"
    /\ \E a \in A, w \in W : Serve("put_records", a, w, put_records(a, environ, w))

PutRecord(A, W) ==
    /\ phase = "idle"
    /\ \E a \in A, w \in W : Serve("put_record", a, w, put_record(a, environ, w))

GetRecords(A, W) ==
    /\ phase = "idle"
    /\ \E a \in A, w \in W : Serve("get_records", a, w, get_records(a, environ, w))

tool_put_record ==
    PutRecord(put_record_args, World(Responses("put_record")))

tool_put_records ==
    PutRecords(put_records_args, World(Responses("put_records")))

tool_get_records ==
    GetRecords(get_records_args, World(Responses("get_records")))

\* how the call that has run ended
Outcome ==
    IF result = MutationBlocked THEN "blocked"
    ELSE IF DOMAIN result = {"error"} THEN "error"
    ELSE "value"

\* the reply is sent; nothing of the call is kept
Respond ==
    /\ phase = "done"
    /\ phase' = "idle"
    /\ tool' = ""
    /\ args' = <<>>
    /\ world' = Responds(Empty)
    /\ admitted' = FALSE
    /\ result' = NoResult
    /\ propagated' = FALSE
    /\ sessions' = 0
    /\ clients' = <<>>
    /\ calls' = <<>>
    /\ earlier' = IF admitted THEN [outcome |-> Outcome, clients |-> clients]
                  ELSE earlier
    /\ UNCHANGED <<environ, inflight>>

\* the process environment is changed between two calls (os.environ[name] =
\* value, del os.environ[name]); the server itself never writes it
setenv ==
    /\ phase = "idle"
    /\ \E name \in EnvNames :
          \E value \in EnvValues(name) : environ' = (name :> value) @@ environ
    /\ UNCHANGED <<phase, tool, args, world, admitted, result, propagated,
                   sessions, clients, calls, earlier, inflight>>

unsetenv ==
    /\ phase = "idle"
    /\ \E name \in DOMAIN environ :
          environ' = [n \in DOMAIN environ \ {name} |-> environ[n]]
    /\ UNCHANGED <<phase, tool, args, world, admitted, result, propagated,
                   sessions, clients, calls, earlier, inflight>>

Next ==
    \/ tool_create_stream
    \/ tool_delete_stream
    \/ tool_describe_stream
    \/ tool_describe_stream_summary
    \/ tool_list_streams
    \/ tool_list_shards
    \/ tool_update_shard_count
    \/ tool_update_stream_mode
    \/ tool_put_record
    \/ tool_put_records
    \/ tool_get_shard_iterator
    \/ tool_get_records
    \/ tool_merge_shards
    \/ tool_split_shard
    \/ tool_enable_enhanced_monitoring
    \/ tool_disable_enhanced_monitoring
    \/ tool_start_stream_encryption
    \/ tool_stop_stream_encryption
    \/ tool_add_tags_to_stream
    \/ tool_remove_tags_from_stream
    \/ tool_list_tags_for_stream
    \/ tool_increase_stream_retention_period
    \/ tool_decrease_stream_retention_period
    \/ tool_register_stream_consumer
    \/ tool_deregister_stream_consumer
    \/ tool_describe_stream_consumer
    \/ tool_list_stream_consumers
    \/ Respond
    \/ setenv
    \/ unsetenv

Spec == Init /\ [][Next]_vars

(***************************************************************************)
(* The data specification: put_record over every data string up to         *)
(* MaxDataLen characters of 'Q', '=', ' ' and U+00E9, and get_records over  *)
(* every response of up to MaxRecords records whose data has up to          *)
(* MaxBlobLen bytes of 0x41, 0xC3 and 0xA9.                                 *)
(***************************************************************************)
DataAlphabet == {81, 61, 32, 233}

DataStrings == UNION {[1..n -> DataAlphabet] : n \in 0..MaxDataLen}

BlobAlphabet == {65, 195, 169}

Blobs == UNION {[1..n -> BlobAlphabet] : n \in 0..MaxBlobLen}

BlobRecords == {"SequenceNumber" :> "49"} \cup {"Data" :> b : b \in Blobs}

BlobResponses ==
    {"Records" :> r : r \in UNION {[1..n -> BlobRecords] : n \in 0..MaxRecords}}

data_put_record ==
    PutRecord({[data |-> Str(d), partition_key |-> "pk1", stream_name |-> "orders"] :
                  d \in DataStrings},
              {Fails("raise", BackingFault)} \cup
              {Responds(r) : r \in Responses("put_record")})

\* the Data of the records of a batch: 'QQ==', 'Q Q==', 'Q', U+00E9 and the
\* bytes b'A\xc3'
BatchData ==
    {Str(<<81, 81, 61, 61>>), Str(<<81, 32, 81, 61, 61>>), Str(<<81>>),
     Str(<<233>>), Bytes(<<65, 195>>)}

BatchRecords == {[Data |-> d, PartitionKey |-> k] : d \in BatchData, k \in {"pk1", "pk2"}}

Batches == UNION {[1..n -> BatchRecords] : n \in 0..MaxRecords}

data_put_records ==
    PutRecords({[records |-> b, stream_name |-> "orders"] : b \in Batches},
               {Fails("raise", BackingFault)} \cup
               {Responds(r) : r \in Responses("put_records")})

data_get_records ==
    GetRecords({[shard_iterator |-> "it-1"]}, {Responds(r) : r \in BlobResponses})

InitData == environ = <<>> /\ Idle /\ inflight = <<>>

NextData ==
    \/ data_put_record
    \/ data_put_records
    \/ data_get_records
    \/ Respond

SpecData == InitData /\ [][NextData]_vars

\* the tool registered under name t (app.tool), called with a, env and w
Run(t, a, env, w) ==
    CASE t = "create_stream" -> create_stream(a, env, w)
      [] t = "delete_stream" -> delete_stream(a, env, w)
      [] t = "describe_stream" -> describe_stream(a, env, w)
      [] t = "describe_stream_summary" -> describe_stream_summary(a, env, w)
      [] t = "list_streams" -> list_streams(a, env, w)
      [] t = "list_shards" -> list_shards(a, env, w)
      [] t = "update_shard_count" -> update_shard_count(a, env, w)
      [] t = "update_stream_mode" -> update_stream_mode(a, env, w)
      [] t = "put_record" -> put_record(a, env, w)
      [] t = "put_records" -> put_records(a, env, w)
      [] t = "get_shard_iterator" -> get_shard_iterator(a, env, w)
      [] t = "get_records" -> get_records(a, env, w)
      [] t = "merge_shards" -> merge_shards(a, env, w)
      [] t = "split_shard" -> split_shard(a, env, w)
      [] t = "enable_enhanced_monitoring" -> enable_enhanced_monitoring(a, env, w)
      [] t = "disable_enhanced_monitoring" -> disable_enhanced_monitoring(a, env, w)
      [] t = "start_stream_encryption" -> start_stream_encryption(a, env, w)
      [] t = "stop_stream_encryption" -> stop_stream_encryption(a, env, w)
      [] t = "add_tags_to_stream" -> add_tags_to_stream(a, env, w)
      [] t = "remove_tags_from_stream" -> remove_tags_from_stream(a, env, w)
      [] t = "list_tags_for_stream" -> list_tags_for_stream(a, env, w)
      [] t = "increase_stream_retention_period" -> increase_stream_retention_period(a, env, w)
      [] t = "decrease_stream_retention_period" -> decrease_stream_retention_period(a, env, w)
      [] t = "register_stream_consumer" -> register_stream_consumer(a, env, w)
      [] t = "deregister_stream_consumer" -> deregister_stream_consumer(a, env, w)
      [] t = "describe_stream_consumer" -> describe_stream_consumer(a, env, w)
      [] t = "list_stream_consumers" -> list_stream_consumers(a, env, w)

(***************************************************************************)
(* Overlapping calls.  Up to MaxInflight calls are served at the same time *)
(* and their statements interleave in every order: the test of the gate    *)
(* (mutation_check.wrapper), the resolution of the client                   *)
(* (get_kinesis_client), the backing call with the mapping of its          *)
(* response, and the reply.  Each call has its own locals; the process     *)
(* environment is the one thing they have in common.                       *)
(***************************************************************************)
Slots == 1..MaxInflight

\* the tools of the overlapping calls that carry @mutation_check
mutation_checked == {"put_record"}

ConcCalls ==
    {[tool |-> "put_record", args |-> a, world |-> w] :
        a \in {Hello, Hello @@ ("region_name" :> "us-east-1")},
        w \in {Responds([ShardId |-> "shardId-0", SequenceNumber |-> "49"]),
               Fails("raise", BackingFault)}}
    \cup
    {[tool |-> "get_records", args |-> [shard_iterator |-> "it-1"], world |-> w] :
        w \in {Responds([Records |-> <<[Data |-> <<104, 105>>], [Data |-> <<195>>]>>]),
               Fails("client", ClientFault)}}

ConcEnvirons ==
    {<<>>, "KINESIS-MCP-READONLY" :> <<89, 101, 115>>,
     [AWS_REGION |-> "eu-west-1"]}

IdleSlot ==
    [phase |-> "idle", tool |-> "", args |-> <<>>, world |-> Responds(Empty),
     result |-> NoResult, sessions |-> 0, clients |-> <<>>, calls |-> <<>>]

InitConc ==
    /\ environ \in ConcEnvirons
    /\ Idle
    /\ inflight = [s \in Slots |-> IdleSlot]

\* the variables of the one-call-at-a-time server, not used here
single == <<phase, tool, args, world, admitted, result, propagated,
            sessions, clients, calls, earlier>>

\* a call arrives
conc_start ==
    /\ \E s \in Slots, c \in ConcCalls :
          /\ inflight[s].phase = "idle"
          /\ inflight' = [inflight EXCEPT ![s] =
                 [IdleSlot EXCEPT !.phase = "gate", !.tool = c.tool,
                                  !.args = c.args, !.world = c.world]]
    /\ UNCHANGED <<environ, single>>

\* mutation_check.wrapper reads the flag: the fixed error, or on to the tool
conc_gate ==
    /\ \E s \in Slots :
          /\ inflight[s].phase = "gate"
          /\ inflight' = [inflight EXCEPT ![s] =
                 IF inflight[s].tool \in mutation_checked /\ readonly(environ)
                 THEN [@ EXCEPT !.phase = "done", !.result = MutationBlocked]
                 ELSE [@ EXCEPT !.phase = "client"]]
    /\ UNCHANGED <<environ, single>>

\* a faulty variant: one client at module level, made by the first call that
\* needs one and used by the calls that overlap with it
conc_client_shared ==
    /\ \E s \in Slots :
          /\ inflight[s].phase = "client"
          /\ LET made == {o \in Slots : inflight[o].clients # <<>>}
                 c == get_kinesis_client(Opt(inflight[s].args, "region_name"),
                                         environ, inflight[s].world)
             IN  inflight' = [inflight EXCEPT ![s] =
                     IF made # {}
                     THEN [@ EXCEPT !.phase = "call", !.sessions = 1,
                                    !.clients = inflight[CHOOSE o \in made : TRUE].clients]
                     ELSE IF c.raised
                     THEN [@ EXCEPT !.phase = "done", !.sessions = c.sessions,
                                    !.result = [error |-> c.exc]]
                     ELSE [@ EXCEPT !.phase = "call", !.sessions = c.sessions,
                                    !.clients = <<c.result>>]]
    /\ UNCHANGED <<environ, single>>

\* client = get_kinesis_client(region_name): an exception goes to
\* handle_exceptions.wrapper and ends the call
conc_client ==
    /\ \E s \in Slots :
          /\ inflight[s].phase = "client"
          /\ LET c == get_kinesis_client(Opt(inflight[s].args, "region_name"),
                                         environ, inflight[s].world)
             IN  inflight' = [inflight EXCEPT ![s] =
                     IF c.raised
                     THEN [@ EXCEPT !.phase = "done", !.sessions = c.sessions,
                                    !.result = [error |-> c.exc]]
                     ELSE [@ EXCEPT !.phase = "call", !.sessions = c.sessions,
                                    !.clients = <<c.result>>]]
    /\ UNCHANGED <<environ, single>>

\* the rest of the tool: the request is built and sent through the client
\* of this call, and the response mapped
conc_call ==
    /\ \E s \in Slots :
          /\ inflight[s].phase = "call"
          /\ LET rest == Run(inflight[s].tool, inflight[s].args,
                             [n \in DOMAIN environ \ {"KINESIS-MCP-READONLY"} |->
                                 environ[n]],
                             inflight[s].world)
                 through == inflight[s].clients[1].region_name
             IN  inflight' = [inflight EXCEPT ![s] =
                     [@ EXCEPT !.phase = "done", !.result = rest.result,
                               !.calls = [i \in 1..Len(rest.calls) |->
                                   [rest.calls[i] EXCEPT !.region_name = through]]]]
    /\ UNCHANGED <<environ, single>>

\* the reply is sent and the locals of the call are gone
conc_reply ==
    /\ \E s \in Slots :
          /\ inflight[s].phase = "done"
          /\ inflight' = [inflight EXCEPT ![s] = IdleSlot]
    /\ UNCHANGED <<environ, single>>

NextConc ==
    \/ conc_start
    \/ conc_gate
    \/ conc_client
    \/ conc_call
    \/ conc_reply

SpecConc == InitConc /\ [][NextConc]_vars

(***************************************************************************)
(* The event loop.  The tools are coroutines run by one loop in one        *)
(* thread: a call that has started keeps the loop until it awaits          *)
(* something that is not done, and till then no other call and no other    *)
(* code of the process runs.                                               *)
(***************************************************************************)

\* a faulty variant: the backing call is awaited (a client that does not
\* block), so the call gives the loop away before it
Suspends_at_call(position) == position = "call"

\* the call gives the loop away before the statement at this position.  The
\* server has two awaits, "await func(*args, **kwargs)" in the two wrappers,
\* each of a coroutine that is run at once; the tools await nothing and the
\* boto3 calls block.
Suspends(position) == FALSE

\* the loop runs the step of a call only when no other call has it
Scheduled ==
    \A s \in Slots :
        inflight'[s] # inflight[s] =>
            \A o \in Slots \ {s} :
                \/ inflight[o].phase \notin {"gate", "client", "call"}
                \/ Suspends(inflight[o].phase)

\* other code of the process changes the environment, when the loop lets
\* it run
loop_setenv ==
    /\ \A o \in Slots :
          \/ inflight[o].phase \notin {"gate", "client", "call"}
          \/ Suspends(inflight[o].phase)
    /\ environ' \in ConcEnvirons \ {environ}
    /\ UNCHANGED <<single, inflight>>

NextLoop ==
    \/ NextConc /\ Scheduled
    \/ loop_setenv

SpecLoop == InitConc /\ [][NextLoop]_vars

(***************************************************************************)
(* Properties.                                                             *)
(***************************************************************************)

\* the tools the specification classes as mutating
MutatingTools ==
    {"create_stream", "delete_stream", "update_shard_count", "update_stream_mode",
     "put_record", "put_records", "merge_shards", "split_shard",
     "enable_enhanced_monitoring", "disable_enhanced_monitoring",
     "start_stream_encryption", "stop_stream_encryption", "add_tags_to_stream",
     "remove_tags_from_stream", "increase_stream_retention_period",
     "decrease_stream_retention_period", "register_stream_consumer",
     "deregister_stream_consumer"}

\* a tool function has been invoked and has come to its end
Invoked == phase = "done" /\ admitted

\* the invocation was one of a mutating tool with the gate active
Gated == tool \in MutatingTools /\ readonly(environ)

IsEnvelope(r) == DOMAIN r = {"error"}

\* the record of the batch that makes request building fail
BuildFails ==
    /\ tool = "put_records"
    /\ \E i \in 1..Len(args.records) : "PartitionKey" \notin DOMAIN args.records[i]

\* the client was resolved: neither the session nor the client creation failed
Resolved == world.point \notin {"session", "client"}

\* C1: a mutating tool invoked while the read-only gate is active returns
\* exactly the fixed mutation-blocked error and makes no call to the backing
\* service (nor creates a session or a client).
C1_GateBlocks ==
    (Invoked /\ Gated) =>
        /\ result = MutationBlocked
        /\ calls = <<>>
        /\ sessions = 0
        /\ clients = <<>>

\* C1 witness: put_record is blocked although the backing call would succeed
C1_Witness ==
    /\ Invoked
    /\ tool = "put_record"
    /\ "stream_name" \in DOMAIN args
    /\ readonly(environ)
    /\ world.point = "return"
    /\ world.response # Empty
    /\ result = MutationBlocked
    /\ calls = <<>>

\* the message of the exception that an invocation past the gate raises
\* first, "" when it raises none
Fault ==
    IF ~Resolved THEN world.exc
    ELSE IF BuildFails THEN "'PartitionKey'"
    ELSE IF world.point = "raise" THEN world.exc
    ELSE IF tool = "describe_stream" /\ "StreamDescription" \notin DOMAIN world.response
    THEN "'StreamDescription'"
    ELSE IF /\ tool = "describe_stream_summary"
            /\ "StreamDescriptionSummary" \notin DOMAIN world.response
    THEN "'StreamDescriptionSummary'"
    ELSE ""

\* C2: no invocation lets an exception out: it ends with a returned value,
\* and when resolving the client, building the request, the backing call or
\* the mapping of the response raises, that value is the error envelope
\* carrying the message of the exception.
C2_FaultsBecomeEnvelopes ==
    Invoked =>
        /\ ~propagated
        /\ result # NoResult
        /\ (~Gated /\ Fault # "") => result = [error |-> Fault]
        /\ (~Gated /\ Fault = "") => ~IsEnvelope(result)

\* C2 witness: the four places an exception comes from have each been turned
\* into an envelope (here: the mapping of a describe_stream response)
C2_Witness ==
    /\ Invoked
    /\ tool = "describe_stream"
    /\ world.point = "return"
    /\ Len(calls) = 1
    /\ result = [error |-> "'StreamDescription'"]

C2_WitnessBuild ==
    /\ Invoked
    /\ BuildFails
    /\ ~Gated
    /\ result = [error |-> "'PartitionKey'"]

\* the value of the read-only variable is one of the true-like candidates
GateValueTrue ==
    /\ "KINESIS-MCP-READONLY" \in DOMAIN environ
    /\ environ["KINESIS-MCP-READONLY"] \in TrueValues

\* C7: the gate is active exactly for the values that lower-case to 'true',
\* '1' or 'yes' ('true', 'TRUE', '1', 'yes', 'Yes' here); with the variable
\* unset, empty, 'false', '0', 'no', 'on', ' true' or 'true ' a mutating tool
\* is not blocked and runs.
C7_GateValues ==
    (Invoked /\ tool \in MutatingTools) =>
        IF GateValueTrue
        THEN result = MutationBlocked /\ sessions = 0
        ELSE result # MutationBlocked /\ sessions = 1

\* C7 witness: with ' true' a mutating tool runs and reaches the backing
\* service
C7_Witness ==
    /\ Invoked
    /\ tool = "delete_stream"
    /\ "KINESIS-MCP-READONLY" \in DOMAIN environ
    /\ environ["KINESIS-MCP-READONLY"] = <<32, 116, 114, 117, 101>>
    /\ Len(calls) = 1
    /\ result = [StreamName |-> "orders", Status |-> "DELETING"]

\* C8: an invocation makes at most one call to the backing service; it makes
\* exactly one when the gate lets it pass, the client is resolved and the
\* request is built; and a call that fails is not made again.
C8_OneCall ==
    phase = "done" =>
        /\ Len(calls) <= 1
        /\ Len(calls) = 1 <=> (admitted /\ ~Gated /\ Resolved /\ ~BuildFails)
        /\ (Len(calls) = 1 /\ world.point = "raise") => result = [error |-> world.exc]

\* C8 witness: the backing call failed, was made once, and the envelope
\* carries its message
C8_Witness ==
    /\ Invoked
    /\ tool = "put_record"
    /\ world.point = "raise"
    /\ Len(calls) = 1
    /\ calls[1].method = "put_record"
    /\ result = [error |-> BackingFault]

RetentionTools ==
    {"increase_stream_retention_period", "decrease_stream_retention_period"}

OutOfRange ==
    \/ args.retention_period_hours < MinRetentionHours
    \/ args.retention_period_hours > MaxRetentionHours

\* C10: a call of increase_ or decrease_stream_retention_period with
\* retention_period_hours below 24 or above 8760 never succeeds: it is
\* refused on the declared bounds before the tool runs, and nothing is sent.
C10_RetentionBounds ==
    (phase = "done" /\ tool \in RetentionTools /\ OutOfRange) =>
        /\ ~admitted
        /\ result = NoResult
        /\ calls = <<>>

\* C10 witness: 23 hours are refused although the gate is inactive and the
\* backing call would succeed
C10_Witness ==
    /\ phase = "done"
    /\ tool = "increase_stream_retention_period"
    /\ args.retention_period_hours = MinRetentionHours - 1
    /\ ~readonly(environ)
    /\ world.point = "return"
    /\ ~admitted

\* the region the claim as stated lets the client target: the argument when
\* given, else AWS_REGION when set, else 'us-west-2'
StatedRegion ==
    IF "region_name" \in DOMAIN args THEN args.region_name
    ELSE IF "AWS_REGION" \in DOMAIN environ THEN environ["AWS_REGION"]
    ELSE "us-west-2"

\* the same with an empty string counted as absent
NonEmptyRegion ==
    IF "region_name" \in DOMAIN args /\ args.region_name # "" THEN args.region_name
    ELSE IF "AWS_REGION" \in DOMAIN environ /\ environ["AWS_REGION"] # ""
    THEN environ["AWS_REGION"]
    ELSE "us-west-2"

\* C3 as stated: region argument, else AWS_REGION when set, else 'us-west-2'
\* (refuted: an empty region argument and an empty AWS_REGION are passed
\* over).
C3_AsStated ==
    (Invoked /\ ~Gated /\ Resolved) =>
        /\ Len(clients) = 1
        /\ clients[1].service = "kinesis"
        /\ clients[1].region_name = StatedRegion

\* C3: the client of every invocation that resolves one targets the region
\* argument when it is given and not empty, else the value of AWS_REGION
\* when it is set and not empty, else 'us-west-2'; it is a 'kinesis' client
\* and it is created once, from one session, and the backing call goes to
\* that region.
C3_RegionPrecedence ==
    (Invoked /\ ~Gated /\ Resolved) =>
        /\ sessions = 1
        /\ Len(clients) = 1
        /\ clients[1].service = "kinesis"
        /\ clients[1].region_name = NonEmptyRegion
        /\ \A i \in 1..Len(calls) : calls[i].region_name = NonEmptyRegion

\* C3 witness: the argument wins over a set AWS_REGION
C3_Witness ==
    /\ Invoked
    /\ tool = "list_streams"
    /\ Opt(args, "region_name") = {"us-east-1"}
    /\ Opt(environ, "AWS_REGION") = {"eu-west-1"}
    /\ Len(calls) = 1
    /\ clients[1].region_name = "us-east-1"

\* the base64 alphabet
InAlphabet(c) == B64Value(c) < 64

\* put_record was invoked with a str and has sent a request
SentStr ==
    /\ Invoked
    /\ tool = "put_record"
    /\ args.data.t = "str"
    /\ Len(calls) = 1

\* C4: put_record with a str that has a character outside the base64
\* alphabet (and that is not the pad '=') sends the UTF-8 encoding of the
\* str (refuted: b64decode drops such characters and decodes the rest).
C4_NonBase64SentAsUtf8 ==
    (SentStr /\ \E i \in 1..Len(args.data.v) :
                    ~InAlphabet(args.data.v[i]) /\ args.data.v[i] # 61) =>
        calls[1].params.Data = Bytes(encode_utf8(args.data.v))

\* a str in canonical base64: groups of four characters of the alphabet,
\* the last group ending in at most two pads
ValidBase64(s) ==
    /\ Len(s) % 4 = 0
    /\ \A i \in 1..Len(s) :
          \/ InAlphabet(s[i])
          \/ s[i] = 61 /\ i >= Len(s) - 1 /\ (i = Len(s) - 1 => s[Len(s)] = 61)

\* the number of bytes a canonical base64 str stands for
DecodedLen(s) ==
    3 * (Len(s) \div 4) - Cardinality({i \in 1..Len(s) : s[i] = 61})

\* C5: put_record with a str in valid base64 sends the base64-decoded
\* bytes, which are not the UTF-8 bytes of the str itself.
C5_Base64Decoded ==
    (SentStr /\ ValidBase64(args.data.v)) =>
        /\ calls[1].params.Data = Bytes(b64decode(args.data.v).bytes)
        /\ Len(calls[1].params.Data.v) = DecodedLen(args.data.v)
        /\ b64encode(calls[1].params.Data.v) = args.data.v
        /\ args.data.v # <<>> => calls[1].params.Data # Bytes(encode_utf8(args.data.v))

\* C5 witness: 'QQ==' is sent as the one byte b'A'
C5_Witness ==
    /\ SentStr
    /\ args.data.v = <<81, 81, 61, 61>>
    /\ calls[1].params.Data = Bytes(<<65>>)
    /\ world.point = "return"

\* get_records has returned the records of a response
GotRecords ==
    /\ Invoked
    /\ tool = "get_records"
    /\ world.point = "return"
    /\ ~IsEnvelope(result)

\* C6: every record get_records returns with Data has exactly one of
\* DataString and DataBase64: DataString, the decoded text, when the bytes
\* are valid UTF-8, and DataBase64, the base64 of the bytes, when they are
\* not; a record without Data gets neither.
C6_OneDerivedField ==
    GotRecords =>
        LET given == Get(world.response, "Records", <<>>) IN
        /\ Len(result.Records) = Len(given)
        /\ \A i \in 1..Len(given) :
              LET in == given[i]
                  out == result.Records[i]
                  added == DOMAIN out \ DOMAIN in
              IN  /\ \A k \in DOMAIN in : out[k] = in[k]
                  /\ IF "Data" \notin DOMAIN in THEN added = {}
                     ELSE IF decode_utf8(in.Data).ok
                     THEN /\ added = {"DataString"}
                          /\ encode_utf8(out.DataString) = in.Data
                     ELSE /\ added = {"DataBase64"}
                          /\ b64decode(out.DataBase64) = [ok |-> TRUE, bytes |-> in.Data]

\* C6 witness: one response with a UTF-8 record (U+00E9) and a record that
\* is not UTF-8
C6_Witness ==
    /\ GotRecords
    /\ Len(result.Records) = 2
    /\ result.Records[1] = [Data |-> <<195, 169>>, DataString |-> <<233>>]
    /\ result.Records[2] = [Data |-> <<169>>, DataBase64 |-> <<113, 81, 61, 61>>]

\* the argument each request field is taken from
ArgOf ==
    [StreamName |-> "stream_name", StreamARN |-> "stream_arn",
     ShardCount |-> "shard_count", StreamModeDetails |-> "stream_mode_details",
     EnforceConsumerDeletion |-> "enforce_consumer_deletion", Limit |-> "limit",
     ExclusiveStartShardId |-> "exclusive_start_shard_id",
     ExclusiveStartStreamName |-> "exclusive_start_stream_name",
     NextToken |-> "next_token", MaxResults |-> "max_results",
     StreamCreationTimestamp |-> "stream_creation_timestamp",
     TargetShardCount |-> "target_shard_count", ScalingType |-> "scaling_type",
     Data |-> "data", PartitionKey |-> "partition_key",
     ExplicitHashKey |-> "explicit_hash_key",
     SequenceNumberForOrdering |-> "sequence_number_for_ordering",
     Records |-> "records", ShardId |-> "shard_id",
     ShardIteratorType |-> "shard_iterator_type",
     StartingSequenceNumber |-> "starting_sequence_number",
     Timestamp |-> "timestamp", ShardIterator |-> "shard_iterator",
     ShardToMerge |-> "shard_to_merge",
     AdjacentShardToMerge |-> "adjacent_shard_to_merge",
     ShardToSplit |-> "shard_to_split",
     NewStartingHashKey |-> "new_starting_hash_key",
     ShardLevelMetrics |-> "shard_level_metrics",
     EncryptionType |-> "encryption_type", KeyId |-> "key_id", Tags |-> "tags",
     TagKeys |-> "tag_keys", ExclusiveStartTagKey |-> "exclusive_start_tag_key",
     RetentionPeriodHours |-> "retention_period_hours",
     ConsumerName |-> "consumer_name", ConsumerARN |-> "consumer_arn"]

\* C9: the request holds only fields the caller supplied, and no field of
\* it, nor of an entry of a put_records batch, is None (refuted: an entry
\* whose record has no Data is sent with Data None).
C9_OnlySuppliedNoNull ==
    (Invoked /\ Len(calls) = 1) =>
        LET params == calls[1].params IN
        /\ \A k \in DOMAIN params : ArgOf[k] \in DOMAIN args
        /\ "Data" \in DOMAIN params => params.Data # None
        /\ "Records" \in DOMAIN params =>
              \A i \in 1..Len(params.Records) :
                  /\ DOMAIN params.Records[i] \subseteq DOMAIN args.records[i]
                  /\ params.Records[i].Data # None

\* a call that passed the gate, resolved its client and got a response
Succeeded == Invoked /\ ~Gated /\ Resolved /\ ~BuildFails /\ world.point = "return"

\* C11: create_stream with the gate inactive and a backing call that
\* succeeds returns exactly the given stream name with Status 'CREATING',
\* whatever the response holds, and its request carries the given name and
\* shard count; delete_stream returns the given name with 'DELETING'.
C11_CreateDeleteResult ==
    /\ (Succeeded /\ tool = "create_stream") =>
          /\ result = [StreamName |-> args.stream_name, Status |-> "CREATING"]
          /\ calls[1].method = "create_stream"
          /\ calls[1].params.StreamName = args.stream_name
          /\ "shard_count" \in DOMAIN args =>
                /\ "ShardCount" \in DOMAIN calls[1].params
                /\ calls[1].params.ShardCount = args.shard_count
    /\ (Succeeded /\ tool = "delete_stream") =>
          /\ result = [StreamName |-> args.stream_name, Status |-> "DELETING"]
          /\ calls[1].method = "delete_stream"
          /\ calls[1].params.StreamName = args.stream_name

\* C11 witness: 'orders' with 4 shards, answered with another name and status
C11_Witness ==
    /\ Succeeded
    /\ tool = "create_stream"
    /\ args.stream_name = "orders"
    /\ Opt(args, "shard_count") = {4}
    /\ world.response = [StreamName |-> "other", StreamStatus |-> "ACTIVE"]
    /\ calls[1].params.ShardCount = 4
    /\ result = [StreamName |-> "orders", Status |-> "CREATING"]

\* get_shard_iterator has sent a request
SentIterator ==
    /\ Invoked
    /\ tool = "get_shard_iterator"
    /\ Len(calls) = 1

\* C12: a get_shard_iterator request of type AT_SEQUENCE_NUMBER or
\* AFTER_SEQUENCE_NUMBER is sent only with StartingSequenceNumber in it, and
\* one of type AT_TIMESTAMP only with Timestamp in it (refuted: the two
\* arguments are optional and nothing tests them against the type; a
\* timestamp of 0 is left out).
C12_IteratorFieldsRequired ==
    SentIterator =>
        LET params == calls[1].params IN
        /\ params.ShardIteratorType \in {"AT_SEQUENCE_NUMBER", "AFTER_SEQUENCE_NUMBER"}
              => "StartingSequenceNumber" \in DOMAIN params
        /\ params.ShardIteratorType = "AT_TIMESTAMP" => "Timestamp" \in DOMAIN params

\* put_records has sent a request
SentBatch ==
    /\ Invoked
    /\ tool = "put_records"
    /\ Len(calls) = 1

\* the Data put_record sends for a data argument
PutRecordSends(data) ==
    put_record([data |-> data, partition_key |-> "pk1"], <<>>,
               Responds(Empty)).calls[1].params.Data

\* C13: the Records of a put_records request are the input records in the
\* same number and order: entry i has the PartitionKey of record i and, for
\* its Data, what put_record sends for the Data of record i (a str
\* base64-decoded or, when that raises, UTF-8 encoded; bytes as they are).
C13_BatchEntryByEntry ==
    SentBatch =>
        LET sent == calls[1].params.Records
            given == args.records
        IN  /\ Len(sent) = Len(given)
            /\ \A i \in 1..Len(given) :
                  /\ sent[i].PartitionKey = given[i].PartitionKey
                  /\ "Data" \in DOMAIN given[i] =>
                        /\ sent[i].Data = PutRecordSends(given[i].Data)
                        /\ sent[i].Data.t = "bytes"
                        /\ given[i].Data.t = "bytes" => sent[i].Data = given[i].Data

\* C13 witness: 'QQ==' under pk2, then U+00E9 under pk1, sent in that order
\* as b'A' and b'\xc3\xa9'
C13_Witness ==
    /\ SentBatch
    /\ Len(args.records) = 2
    /\ args.records[1] = [Data |-> Str(<<81, 81, 61, 61>>), PartitionKey |-> "pk2"]
    /\ args.records[2] = [Data |-> Str(<<233>>), PartitionKey |-> "pk1"]
    /\ calls[1].params.Records =
          <<[Data |-> Bytes(<<65>>), PartitionKey |-> "pk2"],
            [Data |-> Bytes(<<195, 169>>), PartitionKey |-> "pk1"]>>

\* the backing service has answered a put_records request
BatchAnswered == SentBatch /\ world.point = "return"

\* C14: when the put_records call returns, the result is the success
\* payload of FailedRecordCount (0 when the response has none), Records
\* ([] when it has none) and EncryptionType taken from the response, also
\* when FailedRecordCount is above 0; it is never an error envelope.
C14_PartialSuccessPassedOn ==
    BatchAnswered =>
        LET response == world.response IN
        /\ DOMAIN result = {"FailedRecordCount", "Records", "EncryptionType"}
        /\ result.FailedRecordCount =
              IF "FailedRecordCount" \in DOMAIN response
              THEN response.FailedRecordCount ELSE 0
        /\ result.Records =
              IF "Records" \in DOMAIN response THEN response.Records ELSE <<>>
        /\ result.EncryptionType =
              IF "EncryptionType" \in DOMAIN response
              THEN {response.EncryptionType} ELSE {}
        /\ ~IsEnvelope(result)
        /\ ~propagated

\* C14 witness: one of two records failed and the count and the per-record
\* results come back as the result
C14_Witness ==
    /\ BatchAnswered
    /\ Len(args.records) = 2
    /\ Opt(world.response, "FailedRecordCount") = {1}
    /\ result.FailedRecordCount = 1
    /\ result.Records = <<[ErrorCode |-> "ProvisionedThroughputExceededException"]>>

\* the client get_kinesis_client makes for the call being served
FreshClient ==
    [service |-> "kinesis", region_name |-> NonEmptyRegion,
     user_agent_extra |-> "MCP/KinesisServer"]

\* C15: nothing of a call outlasts its reply, and every call that gets past
\* the gate makes one session of its own and, from it, one client for the
\* region its own arguments and the environment give, whatever the earlier
\* call was and did (none, blocked, failed, answered; with or without a
\* client of its own); the request goes through that client only.
C15_NothingKeptBetweenCalls ==
    /\ phase = "idle" =>
          /\ tool = "" /\ args = <<>> /\ result = NoResult
          /\ sessions = 0 /\ clients = <<>> /\ calls = <<>>
    /\ (Invoked /\ ~Gated) =>
          /\ sessions = 1
          /\ Resolved => clients = <<FreshClient>>
          /\ ~Resolved => clients = <<>>
          /\ \A i \in 1..Len(calls) : calls[i].region_name = FreshClient.region_name

\* C15 witness: after a call that was answered through a client for
\* us-east-1, a call without a region makes its own client for us-west-2
\* and succeeds
C15_Witness ==
    /\ Succeeded
    /\ earlier.outcome = "value"
    /\ earlier.clients # <<>>
    /\ earlier.clients[1].region_name = "us-east-1"
    /\ "region_name" \notin DOMAIN args
    /\ "AWS_REGION" \notin DOMAIN environ
    /\ sessions = 1
    /\ clients = <<FreshClient>>
    /\ clients[1].region_name = "us-west-2"

\* after a blocked call and after a failed one
C15_WitnessAfterBlocked ==
    /\ Succeeded
    /\ earlier.outcome = "blocked"
    /\ sessions = 1

C15_WitnessAfterError ==
    /\ Succeeded
    /\ earlier.outcome = "error"
    /\ earlier.clients # <<>>
    /\ clients = <<FreshClient>>

\* what the call in slot s does when it is served alone, start to end,
\* under the same environment and with the same outcomes of the world
Alone(s) ==
    Run(inflight[s].tool, inflight[s].args, environ, inflight[s].world)

\* the call in slot s sent the request and got the result it gets alone
AsAlone(s) ==
    /\ inflight[s].result = Alone(s).result
    /\ inflight[s].sessions = Alone(s).sessions
    /\ inflight[s].clients = Alone(s).clients
    /\ inflight[s].calls = Alone(s).calls

\* C16: calls served at the same time do not touch each other: a step of
\* one call changes the locals of that call only and never the
\* environment, and in every interleaving each call ends with the session,
\* the client, the request and the result it has when served alone.
C16_OverlappingIndependent ==
    /\ [](\A s \in Slots : inflight[s].phase = "done" => AsAlone(s))
    /\ [][/\ environ' = environ
          /\ \A s, o \in Slots :
                (inflight'[s] # inflight[s] /\ o # s) => inflight'[o] = inflight[o]]_vars

\* C16 witness: two put_record calls for different regions overlap, and each
\* has gone through its own client
C16_Witness ==
    /\ inflight[1].phase = "done"
    /\ inflight[2].phase = "done"
    /\ inflight[1].tool = "put_record"
    /\ inflight[2].tool = "put_record"
    /\ Len(inflight[1].calls) = 1
    /\ Len(inflight[2].calls) = 1
    /\ inflight[1].calls[1].region_name = "us-east-1"
    /\ inflight[2].calls[1].region_name = "us-west-2"
    /\ AsAlone(1)
    /\ AsAlone(2)

\* a blocked put_record next to a get_records that is served
C16_WitnessGate ==
    /\ inflight[1].phase = "done"
    /\ inflight[1].result = MutationBlocked
    /\ inflight[2].phase = "call"
    /\ inflight[2].tool = "get_records"

\* the tools the specification classes as non-mutating
ReadTools ==
    {"describe_stream", "describe_stream_summary", "list_streams", "list_shards",
     "get_shard_iterator", "get_records", "list_tags_for_stream",
     "describe_stream_consumer", "list_stream_consumers"}

\* the environment with the gate the other way: the flag taken away when
\* it is true-like, set to 'true' when it is not
GateFlipped ==
    IF readonly(environ)
    THEN [n \in DOMAIN environ \ {"KINESIS-MCP-READONLY"} |-> environ[n]]
    ELSE ("KINESIS-MCP-READONLY" :> <<116, 114, 117, 101>>) @@ environ

\* C17: a non-mutating tool never returns the mutation-blocked error; it
\* resolves its client and, when that succeeds, makes its backing call with
\* the gate active as with the gate inactive, and its request and result
\* are those of the same call with the gate the other way.
C17_GateLeavesReadsAlone ==
    (Invoked /\ tool \in ReadTools) =>
        LET other == Run(tool, args, GateFlipped, world) IN
        /\ result # MutationBlocked
        /\ sessions = 1
        /\ Resolved => Len(calls) = 1
        /\ result = other.result
        /\ calls = other.calls
        /\ clients = other.clients

\* C17 witness: describe_stream answers with the gate active
C17_Witness ==
    /\ Invoked
    /\ tool = "describe_stream"
    /\ readonly(environ)
    /\ Len(calls) = 1
    /\ calls[1].method = "describe_stream"
    /\ result = [StreamName |-> "orders", StreamStatus |-> "ACTIVE"]

\* C18: in a mutating tool the gate is tested before the client is resolved
\* and the request built: with the gate active, a call whose session or
\* client creation would raise, or whose batch has a record without
\* PartitionKey, returns the mutation-blocked error, not the error of that
\* step, and creates no session and no client.
C18_GateBeforeClientAndRequest ==
    (Invoked /\ Gated /\ (~Resolved \/ BuildFails)) =>
        /\ Fault # ""
        /\ result # [error |-> Fault]
        /\ result = MutationBlocked
        /\ sessions = 0
        /\ clients = <<>>

\* C18 witness: a batch with a record that has no PartitionKey, gate active
C18_Witness ==
    /\ Invoked
    /\ tool = "put_records"
    /\ readonly(environ)
    /\ BuildFails
    /\ Resolved
    /\ result = MutationBlocked
    /\ sessions = 0

\* the same with a session that cannot be created
C18_WitnessSession ==
    /\ Invoked
    /\ Gated
    /\ world.point = "session"
    /\ result = MutationBlocked

\* the request fields that are an argument passed on as it is
Forwarded == DOMAIN ArgOf \ {"Data", "Records"}

\* C19: every argument the caller gives with a value other than None is in
\* the request under its field with that value, a value Python takes as
\* false included: False, 0, '' (refuted: only enforce_consumer_deletion is
\* tested with "is not None"; the other optional arguments are tested for
\* truth, so 0 and '' are left out).
C19_FalsyValuesForwarded ==
    (Invoked /\ Len(calls) = 1) =>
        LET params == calls[1].params IN
        \A k \in Forwarded :
            ArgOf[k] \in DOMAIN args =>
                /\ k \in DOMAIN params
                /\ params[k] = args[ArgOf[k]]

\* C20: a put_records batch with a record that has no PartitionKey is not
\* sent at all: past the gate, with the client resolved, the call returns
\* the envelope of the KeyError and makes no call to the backing service,
\* so none of the complete records of the batch is written; blocked or
\* without a client it returns an envelope and makes no call either.
C20_BatchAllOrNothing ==
    (Invoked /\ BuildFails) =>
        /\ IsEnvelope(result)
        /\ calls = <<>>
        /\ (~Gated /\ Resolved) => result = [error |-> "'PartitionKey'"]

\* C20 witness: a complete record followed by one without PartitionKey, gate
\* inactive, client resolved, a backing service that would accept the call
C20_Witness ==
    /\ Invoked
    /\ tool = "put_records"
    /\ ~readonly(environ)
    /\ Len(args.records) = 2
    /\ "PartitionKey" \in DOMAIN args.records[1]
    /\ "PartitionKey" \notin DOMAIN args.records[2]
    /\ world.point = "return"
    /\ sessions = 1
    /\ calls = <<>>
    /\ result = [error |-> "'PartitionKey'"]

\* C21: the flag is read when a mutating call starts: in every sequence of
\* calls and changes of the environment, a mutating call is blocked exactly
\* when KINESIS-MCP-READONLY holds a true-like value at the moment the call
\* starts, whatever it held when the server started and however the call
\* before ended; the call itself leaves the environment as it is.
C21_GateReadAtEveryCall ==
    [][(phase = "idle" /\ phase' = "done" /\ admitted' /\ tool' \in MutatingTools) =>
          /\ (result' = MutationBlocked) <=> GateValueTrue
          /\ GateValueTrue => (sessions' = 0 /\ calls' = <<>>)
          /\ ~GateValueTrue => sessions' = 1
          /\ environ' = environ]_vars

\* C21 witness: the call before was blocked, the flag was then changed to
\* ' true', and this call is served
C21_Witness ==
    /\ Invoked
    /\ tool = "delete_stream"
    /\ earlier.outcome = "blocked"
    /\ Opt(environ, "KINESIS-MCP-READONLY") = {<<32, 116, 114, 117, 101>>}
    /\ Len(calls) = 1
    /\ result = [StreamName |-> "orders", Status |-> "DELETING"]

\* the other way: the call before was served and this one is blocked
C21_WitnessBlockedAfterServed ==
    /\ Invoked
    /\ tool = "put_record"
    /\ earlier.outcome = "value"
    /\ earlier.clients # <<>>
    /\ GateValueTrue
    /\ result = MutationBlocked

\* the calls that have started and not yet come to their end
Running == {s \in Slots : inflight[s].phase \in {"gate", "client", "call"}}

\* C22: from its gate check to its return a call is one step of the event
\* loop: at most one call is between the two at any time, so no two backing
\* calls overlap; no other call takes a step while one is there; and the
\* environment does not change between the gate check of a call and its
\* backing call.
C22_OneUninterruptedStep ==
    /\ [](Cardinality(Running) <= 1)
    /\ [][/\ environ' # environ => Running = {}
          /\ \A s \in Slots : inflight'[s] # inflight[s] => Running \subseteq {s}]_vars

\* C22 witness: a put_record call is past its gate check and about to make
\* its backing call, next to a call that has ended and whose reply is not
\* yet sent, after the flag was set
C22_Witness ==
    /\ inflight[1].phase = "call"
    /\ inflight[1].tool = "put_record"
    /\ inflight[1].sessions = 1
    /\ inflight[2].phase = "done"
    /\ inflight[2].result = MutationBlocked
    /\ ~readonly(environ)
====
